---- MODULE Spec2Model ----
(***************************************************************************)
(* MedHash backend: the verification registry (create-hash, verify-hash)   *)
(* and the handlers around it, as a state machine over the DynamoDB        *)
(* tables.  Strings are sequences of one-character strings, so that        *)
(* str.strip(), str.startswith() and '|'.join() are computed as Python     *)
(* computes them.  An optional value (a JSON field or dict key that may be *)
(* absent / None) is a record [some, val].                                 *)
(***************************************************************************)
EXTENDS Integers, Sequences, FiniteSets, TLC

(***************************************************************************)
(* Bounds of the model                                                     *)
(***************************************************************************)
\* concurrent invocations of the verify-hash Lambda
NumProcs == 2
\* the clock (datetime.utcnow / time.time) runs over 0..MaxTime
MaxTime == 1
\* verify calls that find a digest's record between two writes of it by create-hash,
\* and the stored counter above which no further verify is started
MaxCalls == 3
\* distinct create-hash requests answered with a digest, where requests are drawn
\* from the wide set CanonBodies
MaxIssued == 2

Procs == 1..NumProcs

(***************************************************************************)
(* Python values                                                           *)
(***************************************************************************)
None == [some |-> FALSE, val |-> <<>>]
Some(s) == [some |-> TRUE, val |-> s]
\* Python truthiness of an optional string: None and "" are falsy
truthy(o) == o.some /\ o.val # <<>>
\* a timestamp attribute that is None / absent
NullTime == -1

RECURSIVE lstrip(_)
lstrip(s) == IF s # <<>> /\ Head(s) = " " THEN lstrip(Tail(s)) ELSE s

RECURSIVE rstrip(_)
rstrip(s) == IF s # <<>> /\ s[Len(s)] = " " THEN rstrip(SubSeq(s, 1, Len(s) - 1)) ELSE s

\* str.strip()
strip(s) == rstrip(lstrip(s))

\* str.startswith(prefix)
startswith(s, prefix) ==
    Len(s) >= Len(prefix) /\ SubSeq(s, 1, Len(prefix)) = prefix

\* sep.join(components)
RECURSIVE join(_, _)
join(sep, components) ==
    IF components = <<>> THEN <<>>
    ELSE IF Len(components) = 1 THEN Head(components)
    ELSE Head(components) \o sep \o join(sep, Tail(components))

\* the characters of a string, written out as one TLA+ string
RECURSIVE Str(_)
Str(s) == IF s = <<>> THEN "" ELSE Head(s) \o Str(Tail(s))

(***************************************************************************)
(* HashGenerator (create-hash/app.py).  SHA-256 and HMAC-SHA256 are        *)
(* collision-free here: the hexdigest is one symbol that names the         *)
(* algorithm and its inputs.  A hexdigest has no blank and no 'x' in it,   *)
(* and neither has the symbol.                                             *)
(***************************************************************************)
generate_sha256(data) == << "sha256(" \o Str(data) \o ")" >>

generate_hmac(data, key) == << "hmac(" \o Str(key) \o "," \o Str(data) \o ")" >>

\* generate_hash that joins the summary as it came, untrimmed
generate_hash_untrimmed(paper_data, summary_text, secret_key) ==
    LET components == << paper_data.pmid, paper_data.title, paper_data.doi,
                         paper_data.pubdate, summary_text >>
        combined == join(<<"|">>, components)
    IN  IF truthy(secret_key)
        THEN generate_hmac(combined, secret_key.val)
        ELSE generate_sha256(combined)

generate_hash(paper_data, summary_text, secret_key) ==
    LET components == << paper_data.pmid, paper_data.title, paper_data.doi,
                         paper_data.pubdate, strip(summary_text) >>
        combined == join(<<"|">>, components)
    IN  IF truthy(secret_key)
        THEN generate_hmac(combined, secret_key.val)
        ELSE generate_sha256(combined)

\* HashGenerator.verify_hash (the same in create-hash/app.py and in the common
\* layer with its default algorithm); hmac.compare_digest is equality
verify_hash(data, expected_hash, key) ==
    LET computed == IF truthy(key) THEN generate_hmac(data, key.val)
                    ELSE generate_sha256(data)
    IN  computed = expected_hash

(***************************************************************************)
(* BlockchainSimulator.create_transaction: time.time(), utcnow() and the   *)
(* two secrets.token_hex(20) draws are its inputs.                         *)
(***************************************************************************)
TokenHex == {"a1", "a2"}

\* create_transaction whose transaction id is drawn like the addresses
create_transaction_drawn(hash_value, now, from, to) ==
    [ network         |-> "Ethereum Sepolia Testnet",
      transactionHash |-> <<"0", "x", from>>,
      blockNumber     |-> now % 1000000,
      timestamp       |-> now,
      from            |-> from,
      to              |-> to,
      gasUsed         |-> "21000",
      status          |-> "success",
      note            |-> "SIMULATED FOR HACKATHON - Not a real blockchain transaction" ]

\* hash_value[:64] is the whole hexdigest (64 characters, here one symbol)
create_transaction(hash_value, now, from, to) ==
    [ network         |-> "Ethereum Sepolia Testnet",
      transactionHash |-> <<"0", "x">> \o hash_value,
      blockNumber     |-> now % 1000000,
      timestamp       |-> now,
      from            |-> from,
      to              |-> to,
      gasUsed         |-> "21000",
      status          |-> "success",
      note            |-> "SIMULATED FOR HACKATHON - Not a real blockchain transaction" ]

(***************************************************************************)
(* The DynamoDB table operations the handlers use.  A table is a function  *)
(* from primary key to item.                                               *)
(***************************************************************************)
\* get_item that answers a missing key with an empty item
get_item_default(table, key) ==
    IF key \in DOMAIN table THEN << table[key] >>
    ELSE << [ hash |-> key, pmid |-> None, summaryId |-> None, paper_title |-> None,
              created_at |-> -1, timestamp |-> -1, verification_count |-> 0,
              last_verified |-> -1, metadata |-> << >>, blockchain |-> << >> ] >>

\* Table.get_item: <<item>> when the key is present ('Item' in response)
get_item(table, key) == IF key \in DOMAIN table THEN << table[key] >> ELSE << >>

\* put_item that answers a key already present by dropping its item
put_item_dropping(table, key, item) ==
    IF key \in DOMAIN table
    THEN [k \in DOMAIN table \ {key} |-> table[k]]
    ELSE [k \in DOMAIN table \cup {key} |-> IF k = key THEN item ELSE table[k]]

\* Table.put_item: insert or replace the whole item
put_item(table, key, item) == [k \in DOMAIN table \cup {key} |-> IF k = key THEN item ELSE table[k]]

\* update_item that replaces the item by the key and the two attributes
update_item_replacing(table, key, count, time) ==
    put_item(table, key,
        [ hash |-> key, pmid |-> None, summaryId |-> None, paper_title |-> None,
          created_at |-> NullTime, timestamp |-> NullTime,
          verification_count |-> count, last_verified |-> time,
          metadata |-> << >>, blockchain |-> << >> ])

\* Table.update_item with 'SET verification_count = :count, last_verified = :time'
\* (an update of a key that is not in the table creates an item with the key
\* and the two attributes only)
update_item(table, key, count, time) ==
    IF key \in DOMAIN table
    THEN [table EXCEPT ![key].verification_count = count, ![key].last_verified = time]
    ELSE put_item(table, key,
            [ hash |-> key, pmid |-> None, summaryId |-> None, paper_title |-> None,
              created_at |-> NullTime, timestamp |-> NullTime,
              verification_count |-> count, last_verified |-> time,
              metadata |-> << >>, blockchain |-> << >> ])

\* a put_item that writes the item and then raises
try_put_item_partial(table, key, item, ok) == put_item(table, key, item)

\* create-hash: try: put_item(...) except Exception: log and continue
try_put_item(table, key, item, ok) == IF ok THEN put_item(table, key, item) ELSE table

(***************************************************************************)
(* Requests                                                                *)
(***************************************************************************)
\* create-hash request bodies
CreateBodies ==
    [ pmid         : {None, Some(<<"1">>)},
      summaryId    : {None, Some(<<"s1">>), Some(<<"s2">>)},
      title        : {<<"T">>},
      doi          : {<< >>},
      pubdate      : {<< >>},
      summary      : {<< >>, <<"S">>, <<"S", " ">>},
      secretKey    : {None, Some(<<"k">>)},
      storeOnChain : BOOLEAN ]

\* the digests create-hash can register, and one nobody registers
Digests ==
    { generate_hash([pmid |-> b.pmid.val, title |-> b.title, doi |-> b.doi,
                     pubdate |-> b.pubdate], b.summary, b.secretKey) :
        b \in {c \in CreateBodies : truthy(c.pmid) /\ c.summary # << >>} }

Unregistered == << "sha256(other)" >>

\* the 'hash' path / query parameter of a verify-hash event
HashParams ==
    {None, Some(<< >>), Some(<<" ">>), Some(<<"0", "x">>), Some(<<" ", "0", "x", " ">>)}
    \cup {Some(d) : d \in Digests \cup {Unregistered}}
    \cup {Some(<<"0", "x">> \o d) : d \in Digests}
    \cup {Some(<<" ">> \o d \o <<" ">>) : d \in Digests}

VerifyEvents == [path : HashParams, query : {None, Some(Unregistered)}]

\* verify-hash: the path parameter, or the query parameter when that is falsy
requested_hash(event) == IF truthy(event.path) THEN event.path ELSE event.query

\* clean_hash that keeps a leading 0x
clean_hash_keeping(raw) == strip(raw)

\* verify-hash: strip, then drop a leading 0x
clean_hash(raw) ==
    LET s == strip(raw)
    IN  IF startswith(s, <<"0", "x">>) THEN SubSeq(s, 3, Len(s)) ELSE s

\* new_count without the increment
new_count_same(current_count) == current_count

\* new_count that adds two
new_count_twice(current_count) == current_count + 2

\* verify-hash: new_count = current_count + 1
new_count(current_count) == current_count + 1

\* the canonical input of a create-hash request
paper_data_of(body) ==
    [pmid |-> body.pmid.val, title |-> body.title, doi |-> body.doi, pubdate |-> body.pubdate]

\* create-hash requests whose title and doi may hold the separator and whose
\* summary may be blank
CanonBodies ==
    [ pmid         : {Some(<<"1">>)},
      summaryId    : {Some(<<"s1">>)},
      title        : {<<"T">>, <<"T", "|">>},
      doi          : {<< >>, <<"|">>},
      pubdate      : {<< >>},
      summary      : {<< >>, <<" ">>, <<"S">>},
      secretKey    : {None, Some(<<"k">>)},
      storeOnChain : {FALSE} ]

\* create-hash requests with every kind of secretKey: absent or null, the empty
\* string, a key
KeyBodies ==
    [ pmid         : {Some(<<"1">>)},
      summaryId    : {Some(<<"s1">>)},
      title        : {<<"T">>},
      doi          : {<< >>},
      pubdate      : {<< >>},
      summary      : {<<"S">>},
      secretKey    : {None, Some(<< >>), Some(<<"k">>)},
      storeOnChain : {FALSE} ]

\* create-hash requests with and without the receipt flag; storeOnChain is
\* body.get('storeOnChain', True), so a request without the field has TRUE
ReceiptBodies ==
    [ pmid         : {Some(<<"1">>)},
      summaryId    : {Some(<<"s1">>)},
      title        : {<<"T">>},
      doi          : {<< >>},
      pubdate      : {<< >>},
      summary      : {<<"S">>},
      secretKey    : {None},
      storeOnChain : BOOLEAN ]

CanonDigests ==
    { generate_hash(paper_data_of(b), b.summary, b.secretKey) :
        b \in {c \in CanonBodies \cup KeyBodies \cup ReceiptBodies : c.summary # << >>} }

\* every key a request can name
Keys == Digests \cup CanonDigests
        \cup {clean_hash(requested_hash(e).val) : e \in VerifyEvents}

(***************************************************************************)
(* State                                                                   *)
(***************************************************************************)
VARIABLES
    verifications_table,  \* the VERIFICATIONS_TABLE: hash -> item
    papers_table,         \* the papers table: pmid -> article
    summaries_table,      \* the SUMMARIES_TABLE: summaryId -> summary record
    now,                  \* the clock
    pc,                   \* per verify invocation: "idle" or "found" (after get_item)
    loc,                  \* per verify invocation: hash_value and the record it read
    last,                 \* the request and response of the step just taken
    hist,                 \* per digest, since it was last written by create-hash:
                          \* verify calls completed, and whether they ran one by one
    issued,               \* the create-hash requests answered with a digest so far:
                          \* canonical input, secretKey and the digest returned
    last_request_time,    \* fetch-pubmed's module global _last_request_time
    clock,                \* time.time() in the fetch-pubmed instance, in ticks
    thread,               \* per thread in rate_limit(): where it is and its locals
    requests              \* the times at which rate_limit() let a PubMed call go

vars == << verifications_table, papers_table, summaries_table, now, pc, loc, last, hist,
           issued, last_request_time, clock, thread, requests >>

\* the state of fetch-pubmed's rate limiter
rate_vars == << last_request_time, clock, thread, requests >>

\* MIN_REQUEST_INTERVAL = 0.34, in ticks of 0.17 s
MIN_REQUEST_INTERVAL == 2

NoThread == [pc |-> "idle", current_time |-> 0, wake |-> 0]

NoBody ==
    [ pmid |-> None, summaryId |-> None, title |-> << >>, doi |-> << >>,
      pubdate |-> << >>, summary |-> << >>, secretKey |-> None, storeOnChain |-> FALSE ]

NoEvent == [path |-> None, query |-> None]

NoLoc == [event |-> NoEvent, hash_value |-> << >>, record |-> << >>]

\* a call of HashGenerator.verify_hash: its arguments, the data and key its
\* expected_hash was generated from, and its result
NoCall ==
    [ data |-> << >>, key |-> None, expected_hash |-> << >>,
      of_data |-> << >>, of_key |-> None, result |-> FALSE ]

\* a run of BedrockSummarizer.generate_with_retry: how each call of _generate
\* would end, the result, the calls made and the delays slept
NoRetry ==
    [ outcomes |-> << >>, result |-> None, calls |-> 0, sleeps |-> << >>,
      summary |-> "" ]

NoLast ==
    [ op |-> "none", event |-> NoEvent, body |-> NoBody, status |-> 0,
      verified |-> FALSE, hash |-> << >>, missing_fields |-> << >>,
      verification_count |-> -1, read |-> "none",
      write |-> "none", fresh |-> FALSE, reported |-> << >>, call |-> NoCall,
      pmid |-> None, cached |-> FALSE, data |-> << >>, message |-> "",
      api_calls |-> 0, upstream |-> "none", levels |-> {}, failed |-> {},
      regenerate |-> FALSE, query |-> "none", retry |-> NoRetry ]

\* the verify invocations that have read the item of key and not yet updated it
InFlight(key) == {q \in Procs : pc[q] = "found" /\ loc[q].hash_value = key}

Init ==
    /\ verifications_table = << >>
    /\ papers_table = << >>
    /\ summaries_table = << >>
    /\ now = 0
    /\ pc = [p \in Procs |-> "idle"]
    /\ loc = [p \in Procs |-> NoLoc]
    /\ last = NoLast
    /\ hist = [d \in Keys |-> [calls |-> 0, sequential |-> TRUE, all_ok |-> TRUE,
                                  isolated |-> TRUE, fresh |-> FALSE]]
    /\ issued = {}
    /\ last_request_time = 0
    /\ clock = MIN_REQUEST_INTERVAL
    /\ thread = [t \in Procs |-> NoThread]
    /\ requests = << >>

(***************************************************************************)
(* Time passes                                                             *)
(***************************************************************************)
Tick ==
    /\ now < MaxTime
    /\ now' = now + 1
    /\ UNCHANGED rate_vars
    /\ UNCHANGED << verifications_table, papers_table, summaries_table, pc, loc, last, hist,
                    issued >>

(***************************************************************************)
(* create-hash lambda_handler.  One step: the duplicate check's get_item   *)
(* only logs, so the handler's one effect on the table is its put_item.    *)
(* get_ok / put_ok say whether that store call succeeds or raises.         *)
(***************************************************************************)
\* request_hash with the creation time in place of the publication date
request_hash_stamped(body) ==
    generate_hash([paper_data_of(body) EXCEPT !.pubdate = << ToString(now) >>],
                  body.summary, body.secretKey)

\* create-hash: paper_data from the body, then HashGenerator.generate_hash
request_hash(body) == generate_hash(paper_data_of(body), body.summary, body.secretKey)

\* missing_fields that stops at the first absent field
missing_fields_first(body) ==
    IF ~truthy(body.pmid) THEN << "pmid" >>
    ELSE IF ~truthy(body.summaryId) THEN << "summaryId" >>
    ELSE IF body.summary = << >> THEN << "summary" >>
    ELSE << >>

missing_fields(body) ==
    (IF ~truthy(body.pmid) THEN << "pmid" >> ELSE << >>)
    \o (IF ~truthy(body.summaryId) THEN << "summaryId" >> ELSE << >>)
    \o (IF body.summary = << >> THEN << "summary" >> ELSE << >>)

\* a verification record that starts its counter at 1
verification_record_counted(body, hash_value, blockchain_data, time) ==
    [ hash               |-> hash_value,
      pmid               |-> body.pmid,
      summaryId          |-> body.summaryId,
      paper_title        |-> Some(body.title),
      created_at         |-> time,
      timestamp          |-> time,
      verification_count |-> 1,
      last_verified      |-> NullTime,
      metadata           |-> << [has_secret |-> body.secretKey.some,
                                 store_on_chain |-> body.storeOnChain] >>,
      blockchain         |-> blockchain_data ]

verification_record(body, hash_value, blockchain_data, time) ==
    [ hash               |-> hash_value,
      pmid               |-> body.pmid,
      summaryId          |-> body.summaryId,
      paper_title        |-> Some(body.title),
      created_at         |-> time,
      timestamp          |-> time,
      verification_count |-> 0,
      last_verified      |-> NullTime,
      metadata           |-> << [has_secret |-> body.secretKey.some,
                                 store_on_chain |-> body.storeOnChain] >>,
      blockchain         |-> blockchain_data ]

CreateHash(body, get_ok, put_ok, from, to) ==
    /\ UNCHANGED rate_vars
    /\ UNCHANGED << papers_table, summaries_table >>
    /\ IF missing_fields(body) # << >>
       THEN /\ last' = [NoLast EXCEPT !.op = "create", !.body = body, !.status = 400,
                                          !.missing_fields = missing_fields(body)]
            /\ UNCHANGED << verifications_table, now, pc, loc, hist, issued >>
       ELSE LET paper_data == paper_data_of(body)
                hash_value == request_hash(body)
                blockchain_data ==
                    IF body.storeOnChain
                    THEN << create_transaction(hash_value, now, from, to) >>
                    ELSE << >>
                item == verification_record(body, hash_value, blockchain_data, now)
                fresh == hash_value \notin DOMAIN verifications_table
            IN  /\ verifications_table' =
                       try_put_item(verifications_table, hash_value, item, put_ok)
                /\ hist' =
                       IF put_ok
                       THEN [hist EXCEPT ![hash_value] =
                               [calls |-> 0, sequential |-> TRUE, all_ok |-> TRUE,
                                isolated |-> InFlight(hash_value) = {}, fresh |-> fresh]]
                       ELSE hist
                /\ issued' = issued \cup
                       {[ paper_data |-> paper_data, summary |-> body.summary,
                          secretKey |-> body.secretKey, hash |-> hash_value ]}
                /\ last' = [NoLast EXCEPT !.op = "create", !.body = body, !.status = 200,
                                          !.hash = hash_value,
                                          !.read = IF get_ok THEN "ok" ELSE "failed",
                                          !.write = IF put_ok THEN "ok" ELSE "failed",
                                          !.fresh = fresh,
                                          !.reported = blockchain_data]
                /\ UNCHANGED << now, pc, loc >>

(***************************************************************************)
(* verify-hash lambda_handler, in two steps: up to and including get_item, *)
(* then update_item and the response.  Other invocations run in between.   *)
(***************************************************************************)
VerifyGet(p, event, get_ok) ==
    /\ pc[p] = "idle"
    /\ LET requested == requested_hash(event)
           hash_value == clean_hash(requested.val)
           response == get_item(verifications_table, hash_value)
       IN  IF ~truthy(requested)
           THEN /\ last' = [NoLast EXCEPT !.op = "verify", !.event = event, !.status = 400]
                /\ UNCHANGED << pc, loc, hist >>
           ELSE IF ~get_ok
           THEN /\ last' = [NoLast EXCEPT !.op = "verify", !.event = event, !.status = 503,
                                          !.read = "failed"]
                /\ UNCHANGED << pc, loc, hist >>
           ELSE IF response = << >>
           THEN /\ last' = [NoLast EXCEPT !.op = "verify", !.event = event, !.status = 404,
                                          !.hash = hash_value, !.read = "ok"]
                /\ UNCHANGED << pc, loc, hist >>
           ELSE /\ hist[hash_value].calls + Cardinality(InFlight(hash_value)) < MaxCalls
                /\ response[1].verification_count < MaxCalls
                /\ pc' = [pc EXCEPT ![p] = "found"]
                /\ loc' = [loc EXCEPT ![p] = [event |-> event, hash_value |-> hash_value,
                                                 record |-> response]]
                /\ hist' = [hist EXCEPT ![hash_value].sequential =
                                @ /\ InFlight(hash_value) = {}]
                /\ last' = [NoLast EXCEPT !.op = "verify_get", !.event = event,
                                          !.hash = hash_value, !.read = "ok"]
    /\ UNCHANGED rate_vars
    /\ UNCHANGED << verifications_table, papers_table, summaries_table, now, issued >>

VerifyUpdate(p, update_ok) ==
    /\ pc[p] = "found"
    /\ LET hash_value == loc[p].hash_value
           record == loc[p].record[1]
           current_count == record.verification_count
       IN  /\ verifications_table' =
                  IF update_ok
                  THEN update_item(verifications_table, hash_value,
                                   new_count(current_count), now)
                  ELSE verifications_table
           /\ hist' = [hist EXCEPT ![hash_value].calls = @ + 1,
                                   ![hash_value].all_ok = @ /\ update_ok]
           /\ last' = [NoLast EXCEPT !.op = "verify", !.event = loc[p].event,
                                     !.status = 200, !.verified = TRUE,
                                     !.hash = hash_value,
                                     !.verification_count = new_count(current_count),
                                     !.read = "ok",
                                     !.write = IF update_ok THEN "ok" ELSE "failed",
                                     !.reported = << [ pmid |-> record.pmid,
                                                       summaryId |-> record.summaryId,
                                                       paper_title |-> record.paper_title,
                                                       created_at |-> record.created_at,
                                                       blockchain |-> record.blockchain,
                                                       metadata |-> record.metadata ] >>]
    /\ pc' = [pc EXCEPT ![p] = "idle"]
    /\ loc' = [loc EXCEPT ![p] = NoLoc]
    /\ UNCHANGED rate_vars
    /\ UNCHANGED << papers_table, summaries_table, now, issued >>

(***************************************************************************)
(* fetch-pubmed lambda_handler.  The two PubMed calls answer "ok", with an *)
(* HTTPError or with another exception (the abstract's XML may also fail   *)
(* to parse); what PubMed returns for a paper is fixed.                    *)
(***************************************************************************)
Digit == {"0", "1", "2", "3", "4", "5", "6", "7", "8", "9"}

\* a validation without the upper bound on the length
validate_pmid_unbounded(pmid) ==
    /\ pmid # << >>
    /\ \A i \in 1..Len(pmid) : pmid[i] \in Digit

\* PubMedFetcher.validate_pmid
validate_pmid(pmid) ==
    /\ pmid # << >>
    /\ \A i \in 1..Len(pmid) : pmid[i] \in Digit
    /\ 1 <= Len(pmid) /\ Len(pmid) <= 20

article(pmid, abstract, time) ==
    [ pmid       |-> pmid,
      title      |-> <<"T">>,
      abstract   |-> abstract,
      authors    |-> << "Author A" >>,
      journal    |-> "Journal",
      pubdate    |-> << >>,
      doi        |-> << >>,
      issn       |-> "",
      volume     |-> "",
      issue      |-> "",
      pages      |-> "",
      pmcid      |-> "",
      fetched_at |-> time,
      source     |-> "pubmed" ]

\* the 400 responses: 'if not pmid' and 'if not PubMedFetcher.validate_pmid(pmid)'
invalid_response(pmid) ==
    [NoLast EXCEPT !.op = "fetch", !.pmid = pmid, !.status = 400,
                   !.message = IF ~truthy(pmid) THEN "Please provide a valid PubMed ID"
                               ELSE "PMID should contain only numbers (1-20 digits)"]

\* a cache hit that answers as a fresh fetch does
cached_response_fresh(pmid, item) ==
    [NoLast EXCEPT !.op = "fetch", !.pmid = pmid, !.status = 200, !.read = "ok",
                   !.data = << item >>, !.message = "Paper fetched successfully"]

\* the response when the paper is found in the table
cached_response(pmid, item) ==
    [NoLast EXCEPT !.op = "fetch", !.pmid = pmid, !.status = 200, !.read = "ok",
                   !.cached = TRUE, !.data = << item >>]

\* text of an exception raised by a call to the PubMed API (str(e))
ExceptionText == "<urlopen error timed out>"

\* the responses of the two except clauses of the handler; fetch_abstract is
\* called only after fetch_metadata has returned
upstream_error_response(pmid, get_ok, metadata, abstract) ==
    LET http == metadata = "http_error" \/ (metadata = "ok" /\ abstract = "http_error")
    IN  [NoLast EXCEPT !.op = "fetch", !.pmid = pmid,
                       !.status = IF http THEN 502 ELSE 500,
                       !.message = IF http
                                   THEN "PubMed returned error 503: Service Unavailable"
                                   ELSE ExceptionText,
                       !.read = IF get_ok THEN "ok" ELSE "failed",
                       !.api_calls = IF metadata = "ok" THEN 2 ELSE 1,
                       !.upstream = IF http THEN "http_error" ELSE "error"]

\* a fetch that fails when the fetched paper cannot be stored
fetched_response_stored(pmid, item, get_ok, put_ok) ==
    [NoLast EXCEPT !.op = "fetch", !.pmid = pmid,
                   !.status = IF put_ok THEN 200 ELSE 500,
                   !.data = IF put_ok THEN << item >> ELSE << >>,
                   !.message = IF put_ok THEN "Paper fetched successfully"
                               ELSE ExceptionText,
                   !.read = IF get_ok THEN "ok" ELSE "failed",
                   !.write = IF put_ok THEN "ok" ELSE "failed",
                   !.api_calls = 2, !.upstream = "ok"]

\* the response after both PubMed calls have returned
fetched_response(pmid, item, get_ok, put_ok) ==
    [NoLast EXCEPT !.op = "fetch", !.pmid = pmid, !.status = 200,
                   !.data = << item >>, !.message = "Paper fetched successfully",
                   !.read = IF get_ok THEN "ok" ELSE "failed",
                   !.write = IF put_ok THEN "ok" ELSE "failed",
                   !.api_calls = 2, !.upstream = "ok"]

FetchPubmed(pmid, get_ok, metadata, abstract, put_ok) ==
    /\ UNCHANGED rate_vars
    /\ UNCHANGED << verifications_table, summaries_table, now, pc, loc, hist, issued >>
    /\ IF ~truthy(pmid) \/ ~validate_pmid(pmid.val)
       THEN /\ last' = invalid_response(pmid)
            /\ UNCHANGED papers_table
       ELSE IF get_ok /\ get_item(papers_table, pmid.val) # << >>
       THEN /\ last' = cached_response(pmid, get_item(papers_table, pmid.val)[1])
            /\ UNCHANGED papers_table
       ELSE IF metadata # "ok" \/ abstract \in {"http_error", "error"}
       THEN /\ last' = upstream_error_response(pmid, get_ok, metadata, abstract)
            /\ UNCHANGED papers_table
       ELSE LET text == IF abstract = "parse_error"
                        THEN << "Error parsing abstract XML." >>
                        ELSE << "A" >>
                item == article(pmid.val, text, now)
            IN  /\ papers_table' = try_put_item(papers_table, pmid.val, item, put_ok)
                /\ last' = fetched_response(pmid, item, get_ok, put_ok)

(***************************************************************************)
(* generate-summary lambda_handler.  generated[level] says whether         *)
(* generate_with_retry returned a text for that level or None.             *)
(***************************************************************************)
Levels == {"short", "medium", "long"}

requested_levels(summary_type) ==
    {l \in Levels : summary_type = l \/ summary_type = "all"}

\* BedrockSummarizer.__init__
max_retries == 3

retry_delay == 1

\* a wait of the base delay before every retry
backoff_constant(attempt) == retry_delay

\* time.sleep(self.retry_delay * (attempt + 1))
backoff(attempt) == retry_delay * (attempt + 1)

\* BedrockSummarizer.generate_with_retry from the given pass of its loop on;
\* outcomes[i] is None when the i-th call of _generate raises, else its text
RECURSIVE retry_loop(_, _, _)
retry_loop(attempt, outcomes, sleeps) ==
    IF attempt >= max_retries
    THEN [ result |-> None, calls |-> attempt, sleeps |-> sleeps ]
    ELSE IF outcomes[attempt + 1].some
    THEN [ result |-> outcomes[attempt + 1], calls |-> attempt + 1, sleeps |-> sleeps ]
    ELSE IF attempt < max_retries - 1
    THEN retry_loop(attempt + 1, outcomes, Append(sleeps, backoff(attempt)))
    ELSE [ result |-> None, calls |-> attempt + 1, sleeps |-> sleeps ]

generate_with_retry(outcomes) == retry_loop(0, outcomes, << >>)

\* generate_short_summary / generate_medium_summary / generate_long_summary
generate_summary(level, ok) ==
    IF ok THEN "generated " \o level
    ELSE IF level = "short" THEN "Unable to generate short summary."
    ELSE IF level = "medium" THEN "Unable to generate medium summary."
    ELSE "Unable to generate detailed summary."

\* hashlib.sha256(f"{pmid}:{time.time()}:{title}").hexdigest()[:16]
summary_id(pmid, time, title) ==
    << "sha256(" \o Str(pmid) \o ":" \o ToString(time) \o ":" \o Str(title) \o ")[:16]" >>

\* the sort key of the by-pmid index of the summaries table
by_pmid_sort_key(item) == item.created_at

\* a query that returns the first record of the index in ascending order
latest_summary_oldest(table, pmid) ==
    LET mine == {k \in DOMAIN table : table[k].pmid = pmid}
    IN  IF mine = {} THEN << >>
        ELSE << table[CHOOSE k \in mine :
                        \A j \in mine :
                            by_pmid_sort_key(table[k]) <= by_pmid_sort_key(table[j])] >>

\* summaries_table.query on the by-pmid index, Limit=1, ScanIndexForward=False
latest_summary(table, pmid) ==
    LET mine == {k \in DOMAIN table : table[k].pmid = pmid}
    IN  IF mine = {} THEN << >>
        ELSE << table[CHOOSE k \in mine :
                        \A j \in mine :
                            by_pmid_sort_key(table[j]) <= by_pmid_sort_key(table[k])] >>

\* what the handler has read of the request and of the summaries index when
\* it answers
summarize_request(pmid, regenerate, query_ok) ==
    [NoLast EXCEPT !.op = "summarize", !.pmid = pmid, !.regenerate = regenerate,
                   !.query = IF regenerate THEN "none"
                             ELSE IF query_ok THEN "ok" ELSE "failed"]

\* the response that returns an existing summary
cached_summary_response(pmid, latest) ==
    [summarize_request(pmid, FALSE, TRUE) EXCEPT
        !.status = 200, !.read = "ok", !.cached = TRUE, !.data = << latest >>]

\* a missing paper answered as an empty success
not_found_response_empty(pmid, regenerate, query_ok) ==
    [summarize_request(pmid, regenerate, query_ok) EXCEPT !.status = 200, !.read = "ok"]

\* the response when the papers table has no item for the pmid
not_found_response(pmid, regenerate, query_ok) ==
    [summarize_request(pmid, regenerate, query_ok) EXCEPT
        !.status = 404, !.read = "ok", !.message = "Paper not found"]

GenerateSummary(pmid, summary_type, regenerate, query_ok, paper_ok, generated, put_ok) ==
    /\ UNCHANGED rate_vars
    /\ UNCHANGED << verifications_table, papers_table, now, pc, loc, hist, issued >>
    /\ IF ~truthy(pmid)
       THEN /\ last' = [NoLast EXCEPT !.op = "summarize", !.pmid = pmid, !.status = 400,
                                      !.message = "Please provide a PubMed ID"]
            /\ UNCHANGED summaries_table
       ELSE IF ~regenerate /\ query_ok /\ latest_summary(summaries_table, pmid.val) # << >>
       THEN /\ last' = cached_summary_response(pmid,
                           latest_summary(summaries_table, pmid.val)[1])
            /\ UNCHANGED summaries_table
       ELSE IF ~paper_ok
       THEN /\ last' = [summarize_request(pmid, regenerate, query_ok) EXCEPT
                           !.status = 500, !.read = "failed",
                           !.message = "Error accessing paper data"]
            /\ UNCHANGED summaries_table
       ELSE IF get_item(papers_table, pmid.val) = << >>
       THEN /\ last' = not_found_response(pmid, regenerate, query_ok)
            /\ UNCHANGED summaries_table
       ELSE LET paper == get_item(papers_table, pmid.val)[1]
                wanted == requested_levels(summary_type)
                summaries == [l \in wanted |-> generate_summary(l, generated[l])]
                id == summary_id(pmid.val, now, paper.title)
                text(l) == IF l \in wanted THEN summaries[l] ELSE ""
                summary_record ==
                    [ summaryId    |-> id,
                      pmid         |-> pmid.val,
                      short        |-> text("short"),
                      medium       |-> text("medium"),
                      long         |-> text("long"),
                      created_at   |-> now,
                      model        |-> "amazon.nova-lite-v1:0",
                      summary_type |-> summary_type,
                      paper_title  |-> paper.title ]
            IN  /\ summaries_table' = try_put_item(summaries_table, id, summary_record, put_ok)
                /\ last' = [summarize_request(pmid, regenerate, query_ok) EXCEPT
                                !.status = 200, !.read = "ok",
                                !.data = << summary_record >>,
                                !.levels = wanted,
                                !.failed = {l \in wanted : ~generated[l]},
                                !.write = IF put_ok THEN "ok" ELSE "failed"]

(***************************************************************************)
(* Concurrent verification of registered digests: valid create requests    *)
(* for one canonical input, verify requests for its digest, any number of  *)
(* verify invocations in flight.                                           *)
(***************************************************************************)
ValidBodies == {b \in CreateBodies : missing_fields(b) = << >>}

ConcBodies ==
    {b \in ValidBodies : b.secretKey = None /\ b.summary = <<"S">>
                          /\ b.summaryId = Some(<<"s1">>) /\ ~b.storeOnChain}

ConcDigests ==
    { generate_hash([pmid |-> b.pmid.val, title |-> b.title, doi |-> b.doi,
                     pubdate |-> b.pubdate], b.summary, b.secretKey) : b \in ConcBodies }

ConcEvents == {e \in VerifyEvents : e.path.val \in ConcDigests /\ e.query = None}

\* how a call ends is drawn only when the handler gets as far as the call
Outcome(reached) == IF reached THEN BOOLEAN ELSE {TRUE}

Create(Bodies) ==
    \E body \in Bodies :
        LET complete == missing_fields(body) = << >>
            receipt == complete /\ body.storeOnChain
        IN  \E get_ok \in Outcome(complete), put_ok \in Outcome(complete),
               from \in IF receipt THEN TokenHex ELSE {"a1"},
               to \in IF receipt THEN TokenHex ELSE {"a1"} :
                CreateHash(body, get_ok, put_ok, from, to)

Verify(p, Events) ==
    \E event \in Events :
        \E get_ok \in Outcome(truthy(requested_hash(event))) :
            VerifyGet(p, event, get_ok)

Next ==
    \/ Tick
    \/ Create(ConcBodies)
    \/ \E p \in Procs : Verify(p, ConcEvents)
    \/ \E p \in Procs, update_ok \in BOOLEAN : VerifyUpdate(p, update_ok)

Spec == Init /\ [][Next]_vars

(***************************************************************************)
(* The handlers run one after another (one invocation at a time), on every *)
(* create request and every verify event.                                  *)
(***************************************************************************)
AllIdle == \A p \in Procs : pc[p] = "idle"

\* complete and incomplete requests for one canonical input, without a receipt
SeqBodies == {b \in CreateBodies : b.secretKey = None /\ ~b.storeOnChain}

SeqNext ==
    \/ Tick
    \/ AllIdle /\ Create(SeqBodies)
    \/ AllIdle /\ Verify(1, VerifyEvents)
    \/ \E update_ok \in BOOLEAN : VerifyUpdate(1, update_ok)

SeqSpec == Init /\ [][SeqNext]_vars

(***************************************************************************)
(* The pipeline: fetch, summarize, create and verify, one after another.   *)
(***************************************************************************)
PmidInputs == {None, Some(<<"1">>), Some(<<"x">>)}

\* how fetch_metadata and, when it is reached, fetch_abstract end
PubMedOutcomes ==
    ({"ok"} \X {"ok", "http_error", "error", "parse_error"})
    \cup ({"http_error", "error"} \X {"ok"})

FetchAny(Pmids) ==
    \E pmid \in Pmids :
        LET valid == truthy(pmid) /\ validate_pmid(pmid.val)
        IN  \E get_ok \in Outcome(valid) :
                LET fetching == valid /\ ~(get_ok /\ get_item(papers_table, pmid.val) # << >>)
                IN  \E pubmed \in IF fetching THEN PubMedOutcomes ELSE {<< "ok", "ok" >>} :
                        LET storing == fetching /\ pubmed[1] = "ok"
                                                /\ pubmed[2] \in {"ok", "parse_error"}
                        IN  \E put_ok \in Outcome(storing) :
                                FetchPubmed(pmid, get_ok, pubmed[1], pubmed[2], put_ok)

SummarizeAny(Pmids, Types) ==
    \E pmid \in Pmids, summary_type \in Types :
        LET given == truthy(pmid)
        IN  \E regenerate \in Outcome(given) :
            \E query_ok \in Outcome(given /\ ~regenerate) :
                LET reading == given /\ ~(~regenerate /\ query_ok
                                          /\ latest_summary(summaries_table, pmid.val) # << >>)
                IN  \E paper_ok \in Outcome(reading) :
                        LET generating == reading /\ paper_ok
                                          /\ get_item(papers_table, pmid.val) # << >>
                            \* generate_with_retry runs for the requested levels only
                            called == IF generating THEN requested_levels(summary_type)
                                      ELSE {}
                        IN  \E put_ok \in Outcome(generating),
                               generated \in {g \in [Levels -> BOOLEAN] :
                                                \A l \in Levels \ called : g[l]} :
                                GenerateSummary(pmid, summary_type, regenerate, query_ok,
                                                paper_ok, generated, put_ok)

Fetch == FetchAny(PmidInputs)

Summarize(Types) == SummarizeAny({None, Some(<<"1">>)}, Types)

PipelineNext ==
    \/ Tick
    \/ AllIdle /\ Fetch
    \/ AllIdle /\ Summarize({"short"})
    \/ AllIdle /\ Create(ConcBodies)
    \/ AllIdle /\ Verify(1, ConcEvents)
    \/ \E update_ok \in BOOLEAN : VerifyUpdate(1, update_ok)

PipelineSpec == Init /\ [][PipelineNext]_vars

(***************************************************************************)
(* Canonicalization: create-hash on requests with the separator in their   *)
(* fields, blank summaries and every kind of secretKey.                    *)
(***************************************************************************)
CanonNext ==
    \/ Tick
    \/ Cardinality(issued) < MaxIssued /\ Create(CanonBodies)

CanonSpec == Init /\ [][CanonNext]_vars

(***************************************************************************)
(* Keys: create-hash with every kind of secretKey.                         *)
(***************************************************************************)
KeyNext ==
    \/ Tick
    \/ Create(KeyBodies)

KeySpec == Init /\ [][KeyNext]_vars

(***************************************************************************)
(* Receipts: create-hash with and without a receipt, and verify-hash on    *)
(* the digest created.                                                     *)
(***************************************************************************)
ReceiptEvents == [path : {Some(request_hash(b)) : b \in ReceiptBodies}, query : {None}]

ReceiptNext ==
    \/ Tick
    \/ AllIdle /\ Create(ReceiptBodies)
    \/ AllIdle /\ Verify(1, ReceiptEvents)
    \/ \E update_ok \in BOOLEAN : VerifyUpdate(1, update_ok)

ReceiptSpec == Init /\ [][ReceiptNext]_vars

(***************************************************************************)
(* fetch-pubmed on its own, over identifiers of every kind the validation  *)
(* tells apart: absent, empty, digits, a non-digit, 20 and 21 digits.      *)
(***************************************************************************)
MaxPmidLen == 20

Digits(n) == [i \in 1..n |-> "1"]

FetchPmids ==
    { None, Some(<< >>), Some(<<"1">>), Some(<<"1", "x">>),
      Some(Digits(MaxPmidLen)), Some(Digits(MaxPmidLen + 1)) }

FetchNext ==
    \/ Tick
    \/ FetchAny(FetchPmids)

FetchSpec == Init /\ [][FetchNext]_vars

(***************************************************************************)
(* generate-summary after fetch-pubmed, one level or all of them.          *)
(***************************************************************************)
SummaryTypes == {"all"}

SummaryPmids == {None, Some(<<"1">>), Some(<<"2">>)}

SummaryNext ==
    \/ Tick
    \/ FetchAny({Some(<<"1">>)})
    \/ SummarizeAny(SummaryPmids, SummaryTypes)

SummarySpec == Init /\ [][SummaryNext]_vars

(***************************************************************************)
(* BedrockSummarizer on its own: one level's summary, each call of         *)
(* _generate raising or returning a text (which may be empty).             *)
(***************************************************************************)
GenerateOutcomes ==
    { None, Some(<< >>), Some(<<"text">>),
      Some(<<"Summary generation failed - no content in response.">>) }

GenerateLevel(level, outcomes) ==
    LET run == generate_with_retry(outcomes)
    IN  /\ last' = [NoLast EXCEPT !.op = "generate", !.levels = {level},
                       !.failed = IF truthy(run.result) THEN {} ELSE {level},
                       !.retry = [ outcomes |-> outcomes, result |-> run.result,
                                   calls |-> run.calls, sleeps |-> run.sleeps,
                                   summary |-> generate_summary(level, truthy(run.result)) ]]
        /\ UNCHANGED rate_vars
        /\ UNCHANGED << verifications_table, papers_table, summaries_table, now, pc, loc,
                        hist, issued >>

RetryNext ==
    \E level \in Levels, outcomes \in [1..max_retries -> GenerateOutcomes] :
        GenerateLevel(level, outcomes)

RetrySpec == Init /\ [][RetryNext]_vars

(***************************************************************************)
(* rate_limit() in threads of one fetch-pubmed instance.  A thread reads   *)
(* the time, compares it with the global, sleeps if it must and then       *)
(* writes the global; the statements of different threads interleave.      *)
(***************************************************************************)
MaxClock == 5

MaxRequests == 3

RateTick ==
    /\ clock < MaxClock
    /\ clock' = clock + 1
    /\ UNCHANGED << verifications_table, papers_table, summaries_table, now, pc, loc, last,
                    hist, issued, last_request_time, thread, requests >>

\* current_time = time.time()
ReadTime(t) ==
    /\ thread[t].pc = "idle"
    /\ Len(requests) < MaxRequests
    /\ thread' = [thread EXCEPT ![t] = [NoThread EXCEPT !.pc = "timed",
                                                         !.current_time = clock]]
    /\ UNCHANGED << verifications_table, papers_table, summaries_table, now, pc, loc, last,
                    hist, issued, last_request_time, clock, requests >>

\* time_since_last = current_time - _last_request_time; if it is below the
\* interval, time.sleep(MIN_REQUEST_INTERVAL - time_since_last) begins
CompareTime(t) ==
    /\ thread[t].pc = "timed"
    /\ LET time_since_last == thread[t].current_time - last_request_time
       IN  thread' = [thread EXCEPT ![t] =
                 IF time_since_last < MIN_REQUEST_INTERVAL
                 THEN [@ EXCEPT !.pc = "sleep",
                                !.wake = clock + (MIN_REQUEST_INTERVAL - time_since_last)]
                 ELSE [@ EXCEPT !.pc = "write"]]
    /\ UNCHANGED << verifications_table, papers_table, summaries_table, now, pc, loc, last,
                    hist, issued, last_request_time, clock, requests >>

\* time.sleep returns
Wake(t) ==
    /\ thread[t].pc = "sleep"
    /\ clock >= thread[t].wake
    /\ thread' = [thread EXCEPT ![t].pc = "write"]
    /\ UNCHANGED << verifications_table, papers_table, summaries_table, now, pc, loc, last,
                    hist, issued, last_request_time, clock, requests >>

\* _last_request_time = time.time(); rate_limit returns and the call goes out
WriteTime(t) ==
    /\ thread[t].pc = "write"
    /\ last_request_time' = clock
    /\ requests' = Append(requests, clock)
    /\ thread' = [thread EXCEPT ![t] = NoThread]
    /\ UNCHANGED << verifications_table, papers_table, summaries_table, now, pc, loc, last,
                    hist, issued, clock >>

RateNext ==
    \/ RateTick
    \/ \E t \in Procs : ReadTime(t)
    \/ \E t \in Procs : CompareTime(t)
    \/ \E t \in Procs : Wake(t)
    \/ \E t \in Procs : WriteTime(t)

RateSpec == Init /\ [][RateNext]_vars

(***************************************************************************)
(* HashGenerator on its own: a digest is generated from a data string, by  *)
(* generate_sha256 when no key is given and by generate_hmac when one is,  *)
(* and verify_hash is called on it with a data string and a key.           *)
(***************************************************************************)
DataStrings == {<< >>, <<"a">>, <<"b">>, <<"a", "|", "b">>}

SecretKeys == {None, Some(<< >>), Some(<<"k">>), Some(<<"j">>)}

VerifyHash(data, key, of_data, of_key) ==
    LET expected_hash == IF of_key.some THEN generate_hmac(of_data, of_key.val)
                         ELSE generate_sha256(of_data)
    IN  /\ last' = [NoLast EXCEPT !.op = "verify_hash",
                       !.call = [ data |-> data, key |-> key,
                                  expected_hash |-> expected_hash,
                                  of_data |-> of_data, of_key |-> of_key,
                                  result |-> verify_hash(data, expected_hash, key) ]]
        /\ UNCHANGED rate_vars
        /\ UNCHANGED << verifications_table, papers_table, summaries_table, now, pc, loc,
                        hist, issued >>

HashNext ==
    \E data \in DataStrings, key \in SecretKeys,
       of_data \in DataStrings, of_key \in SecretKeys :
        VerifyHash(data, key, of_data, of_key)

HashSpec == Init /\ [][HashNext]_vars

(***************************************************************************)
(* Properties                                                              *)
(***************************************************************************)
Registered == DOMAIN verifications_table

Count(d) == verifications_table[d].verification_count

\* since create-hash last wrote d: no verify was in flight at that write, and
\* every update_item of d succeeded
Undisturbed(d) == hist[d].isolated /\ hist[d].all_ok

\* C1: when verify calls on a registered digest interleave in any order and every
\* update succeeds, then once all of them have completed the stored counter is
\* its value before the calls (0, as create-hash wrote it) plus their number.
C1_NoIncrementLost ==
    \A d \in Registered :
        (Undisturbed(d) /\ InFlight(d) = {}) => Count(d) = hist[d].calls

\* C2: verify calls on a registered digest that run strictly one after another,
\* all updates succeeding and no create in between, leave the counter at the
\* value before them plus their number, and the k-th of them reports that value
\* plus k.
C2_SequentialCallsCountExactly ==
    /\ \A d \in Registered :
        (Undisturbed(d) /\ hist[d].sequential) => Count(d) = hist[d].calls
    /\ (last.op = "verify" /\ last.status = 200
            /\ Undisturbed(last.hash) /\ hist[last.hash].sequential)
        => last.verification_count = hist[last.hash].calls

C2_Witness ==
    \E d \in Registered :
        /\ Undisturbed(d) /\ hist[d].sequential /\ hist[d].calls = 2
        /\ last.op = "verify" /\ last.hash = d /\ last.verification_count = 2
        /\ Count(d) = 2

\* C3: after N >= 1 verify calls on a registered digest, interleaved in any order
\* and all with successful updates, have completed, the stored counter is at
\* least the value before them plus 1 and at most that value plus N.
C3_CounterWithinBounds ==
    \A d \in Registered :
        (Undisturbed(d) /\ InFlight(d) = {} /\ hist[d].calls >= 1)
            => (Count(d) >= 1 /\ Count(d) <= hist[d].calls)

C3_Witness ==
    \E d \in Registered :
        /\ Undisturbed(d) /\ InFlight(d) = {} /\ ~hist[d].sequential
        /\ hist[d].calls = 2 /\ Count(d) = 1

\* C4: the verification counter of a record is a non-negative integer that never
\* decreases, whatever create and verify operations run (a repeated create for
\* the same canonical input included).
C4_CounterNeverDecreases ==
    [][\A d \in Registered :
          /\ d \in DOMAIN verifications_table'
          /\ Count(d) >= 0
          /\ verifications_table'[d].verification_count >= Count(d)]_vars

\* C5: a record that exists keeps its identifier, summary id, paper title,
\* creation timestamp, creation epoch, metadata flags and receipt through every
\* later create and verify on its digest.
C5_RecordFieldsKeepFirstValues ==
    [][\A d \in Registered :
          /\ d \in DOMAIN verifications_table'
          /\ LET old == verifications_table[d]
                 new == verifications_table'[d]
             IN  /\ new.pmid = old.pmid
                 /\ new.summaryId = old.summaryId
                 /\ new.paper_title = old.paper_title
                 /\ new.created_at = old.created_at
                 /\ new.timestamp = old.timestamp
                 /\ new.metadata = old.metadata
                 /\ new.blockchain = old.blockchain]_vars

\* C6: a digest's record, once in the table, is in the table in every later state,
\* whatever fetch, summarize, create and verify operations follow, successful or
\* failed.
C6_RegisteredStaysRegistered ==
    [][\A d \in Registered : d \in DOMAIN verifications_table']_vars

C6_Witness ==
    \E d \in Registered :
        /\ Count(d) >= 1
        /\ DOMAIN papers_table # {}
        /\ DOMAIN summaries_table # {}
        /\ last.op = "create" /\ last.hash = d /\ last.write = "failed"

\* C7: after a create whose put_item succeeded for a digest that was not
\* registered, the record's counter is 0, and the verify of that digest that
\* follows it finds the record and returns verified = true with
\* verification_count = 1.
C7_FirstVerifyAfterCreate ==
    /\ (last.op = "create" /\ last.write = "ok" /\ last.fresh) => Count(last.hash) = 0
    /\ (last.op = "verify" /\ last.status = 404) => last.hash \notin Registered
    /\ (last.op = "verify" /\ last.status = 200
            /\ hist[last.hash].fresh /\ hist[last.hash].calls = 1
            /\ hist[last.hash].isolated /\ hist[last.hash].sequential)
        => (last.verified /\ last.verification_count = 1)

C7_Witness ==
    /\ last.op = "verify" /\ last.status = 200 /\ last.write = "ok"
    /\ hist[last.hash].fresh /\ hist[last.hash].calls = 1
    /\ last.verified /\ last.verification_count = 1 /\ Count(last.hash) = 1

\* C8: a verify of a digest that has no record (its lookup answered) returns
\* status 404 with verified = false, issues no write and leaves the table as it
\* was.
C8_UnregisteredIsNotFound ==
    [][(last'.op = "verify" /\ last'.read = "ok" /\ last'.hash \notin Registered)
        => /\ last'.status = 404
           /\ ~last'.verified
           /\ last'.write = "none"
           /\ verifications_table' = verifications_table
           /\ pc' = pc]_vars

C8_Witness ==
    /\ last.op = "verify" /\ last.status = 404 /\ last.hash = Unregistered
    /\ ~last.verified /\ Registered # {}

\* the digest of the request is empty once trimmed and rid of a leading 0x
EmptyAfterNormalization(event) == clean_hash(requested_hash(event).val) = << >>

\* C9: a verify request whose digest is empty after normalization (absent, empty,
\* blank, or only the 0x prefix) is answered with status 400 and verified = false,
\* and no lookup is made.
C9_EmptyDigestIsRejected ==
    (last.op \in {"verify", "verify_get"} /\ EmptyAfterNormalization(last.event))
        => (last.status = 400 /\ ~last.verified /\ last.read = "none")

\* C10: when update_item fails in a verify of a registered digest, the response
\* is 200 with verified = true, the verification_count it reports is the stored,
\* un-incremented counter, and the stored counter is unchanged.
C10_FailedUpdateReportsKnownCount ==
    (last.op = "verify" /\ last.write = "failed")
        => /\ last.status = 200
           /\ last.verified
           /\ last.verification_count = Count(last.hash)

\* a step of the verify-hash handler (the clock stands still in it)
VerifyStep == now' = now /\ vars' # vars /\ last'.op \in {"verify", "verify_get"}

\* the fields of a record that a verify response repeats
Reported(record) ==
    << [ pmid |-> record.pmid, summaryId |-> record.summaryId,
         paper_title |-> record.paper_title, created_at |-> record.created_at,
         blockchain |-> record.blockchain, metadata |-> record.metadata ] >>

\* what a verify of digest d does in a step, told without the request's spelling:
\* the key looked up, the status, the verified flag, the record fields returned
\* and the write to the counter
VerifiesDigest(d) ==
    IF pc[1] = "idle"
    THEN /\ last'.read # "none"
         /\ verifications_table' = verifications_table
         /\ last'.read = "failed" => (last'.status = 503 /\ ~last'.verified /\ pc' = pc)
         /\ last'.read = "ok" =>
                /\ last'.hash = d
                /\ IF d \in Registered
                   THEN /\ pc'[1] = "found"
                        /\ loc'[1].hash_value = d
                        /\ loc'[1].record = << verifications_table[d] >>
                   ELSE last'.status = 404 /\ ~last'.verified /\ pc' = pc
    ELSE /\ last'.status = 200 /\ last'.verified /\ last'.hash = d
         /\ loc[1].hash_value = d
         /\ last'.verification_count = Count(d) + 1
         /\ last'.reported = Reported(verifications_table[d])
         /\ verifications_table' =
                IF last'.write = "ok"
                THEN [verifications_table EXCEPT ![d].verification_count = Count(d) + 1,
                                                 ![d].last_verified = now]
                ELSE verifications_table

\* C11: a verify of "0x" followed by a digest looks up the digest as its key and
\* has the result (status, verified flag, record fields returned, counter write)
\* that a verify of the bare digest has from the same table.
C11_PrefixedDigestVerifiesAlike ==
    [][\A d \in Digests \cup {Unregistered} :
          (VerifyStep /\ last'.event.path \in {Some(d), Some(<<"0", "x">> \o d)})
              => VerifiesDigest(d)]_vars

C11_Witness ==
    \E d \in Registered :
        /\ last.op = "verify" /\ last.event.path = Some(<<"0", "x">> \o d)
        /\ last.status = 200 /\ last.hash = d /\ last.write = "ok" /\ Count(d) = 2

\* a step of the create-hash handler
CreateStep == now' = now /\ vars' # vars /\ last'.op = "create"

\* the required fields that a create-hash request lacks (absent, null or empty)
AbsentFields(body) ==
    {f \in {"pmid", "summaryId", "summary"} :
        \/ f = "pmid" /\ (~body.pmid.some \/ body.pmid.val = << >>)
        \/ f = "summaryId" /\ (~body.summaryId.some \/ body.summaryId.val = << >>)
        \/ f = "summary" /\ body.summary = << >>}

\* C12: a create request that lacks a required field is answered 400 with a
\* missing_fields list that names every absent required field once and nothing
\* else; no store call is made, the table stays as it was and no digest is
\* returned.
C12_MissingFieldsAllReported ==
    [][(CreateStep /\ AbsentFields(last'.body) # {})
        => /\ last'.status = 400
           /\ {last'.missing_fields[i] : i \in 1..Len(last'.missing_fields)}
                  = AbsentFields(last'.body)
           /\ Len(last'.missing_fields) = Cardinality(AbsentFields(last'.body))
           /\ last'.read = "none" /\ last'.write = "none"
           /\ last'.hash = << >>
           /\ verifications_table' = verifications_table
           /\ issued' = issued]_vars

C12_Witness ==
    /\ last.op = "create" /\ last.status = 400
    /\ last.missing_fields = << "pmid", "summaryId", "summary" >>
    /\ Registered # {}

\* C13: a create request whose summary is blank (empty once trimmed) is answered
\* 400 with 'summary' among the missing fields and writes no record.
C13_BlankSummaryIsRejected ==
    (last.op = "create" /\ strip(last.body.summary) = << >>)
        => /\ last.status = 400
           /\ \E i \in 1..Len(last.missing_fields) : last.missing_fields[i] = "summary"
           /\ last.write = "none"

\* the canonical tuple of a request: identifier, title, doi, pubdate and the
\* trimmed summary
Canonical(paper_data, summary) ==
    << paper_data.pmid, paper_data.title, paper_data.doi, paper_data.pubdate,
       strip(summary) >>

\* the requests answered before with the canonical input and key of body
IssuedFor(body) ==
    {r \in issued : /\ Canonical(r.paper_data, r.summary)
                          = Canonical(paper_data_of(body), body.summary)
                    /\ r.secretKey = body.secretKey}

\* C14: a complete create request whose canonical input and key were answered
\* before and whose digest has a record is answered 200 with the digest of the
\* first answer, and afterwards the table has that one record under the digest
\* and no record more than before.
C14_RepeatedCreateIsUpsert ==
    [][\A r \in IssuedFor(last'.body) :
          (CreateStep /\ AbsentFields(last'.body) = {} /\ r.hash \in Registered)
              => /\ last'.status = 200
                 /\ last'.hash = r.hash
                 /\ DOMAIN verifications_table' = Registered
                 /\ verifications_table'[r.hash].hash = r.hash]_vars

C14_Witness ==
    /\ last.op = "create" /\ last.status = 200 /\ ~last.fresh /\ last.write = "ok"
    /\ last.body.summary = <<"S", " ">>
    /\ \E r \in issued : r.hash = last.hash /\ r.summary = <<"S">>
    /\ last.hash \in Registered /\ Count(last.hash) = 0

\* C15 as stated: when the put_item or the duplicate lookup of a complete create
\* request fails, the answer is 200 with the computed digest and the table is
\* left as it was.
C15_FailedStoreCallLeavesTable ==
    [][(CreateStep /\ AbsentFields(last'.body) = {}
            /\ (last'.write = "failed" \/ last'.read = "failed"))
        => /\ last'.status = 200
           /\ last'.hash = request_hash(last'.body)
           /\ verifications_table' = verifications_table]_vars

\* C15, amended: when the put_item of a complete create request fails, the
\* answer is 200 with the computed digest and the table is left as it was, so an
\* unregistered digest stays unregistered; when only the duplicate lookup fails,
\* the answer is 200 with the computed digest and the record is written.
C15_FailedWriteLeavesTable ==
    [][(CreateStep /\ AbsentFields(last'.body) = {}
            /\ (last'.write = "failed" \/ last'.read = "failed"))
        => /\ last'.status = 200
           /\ last'.hash = request_hash(last'.body)
           /\ last'.write = "failed" =>
                 /\ verifications_table' = verifications_table
                 /\ last'.hash \notin Registered
                        => last'.hash \notin DOMAIN verifications_table'
           /\ last'.write = "ok" =>
                 /\ last'.hash \in DOMAIN verifications_table'
                 /\ verifications_table'[last'.hash].verification_count = 0]_vars

C15_Witness ==
    /\ last.op = "create" /\ last.status = 200 /\ last.write = "failed"
    /\ last.fresh /\ last.hash = <<"sha256(1|T|||S)">> /\ last.hash \notin Registered

C17_OneTuplePerDigest ==
    \A r1, r2 \in issued :
        Canonical(r1.paper_data, r1.summary) # Canonical(r2.paper_data, r2.summary)
            => r1.hash # r2.hash

\* the canonical string of a request
CanonicalString(body) == join(<<"|">>, Canonical(paper_data_of(body), body.summary))

\* the keyed MACs and the unkeyed hashes of the requests of KeyBodies
KeyedDigests ==
    { generate_hmac(CanonicalString(b), b.secretKey.val) :
        b \in {c \in KeyBodies : c.secretKey.some} }

UnkeyedDigests == { generate_sha256(CanonicalString(b)) : b \in KeyBodies }

\* C18: the has_secret flag of a stored record is true exactly when its digest
\* is the keyed MAC and false exactly when it is the unkeyed hash, whatever the
\* secretKey of the request was (absent or null, empty, non-empty).
C18_HasSecretTellsKeyedDigest ==
    \A d \in Registered :
        /\ verifications_table[d].metadata[1].has_secret <=> d \in KeyedDigests
        /\ ~verifications_table[d].metadata[1].has_secret <=> d \in UnkeyedDigests

\* the receipts in the table and in the create response just given
Receipts ==
    { << d, verifications_table[d].blockchain[1] >> :
        d \in {k \in Registered : verifications_table[k].blockchain # << >>} }
    \cup (IF last.op = "create" /\ last.reported # << >>
          THEN { << last.hash, last.reported[1] >> } ELSE {})

\* C19: a create answers with a receipt, and stores it in the record it writes,
\* exactly when storeOnChain is set; every receipt's transaction id is "0x"
\* followed by the digest (so the receipts of one digest share it) and every
\* receipt carries the note that says it is simulated.
C19_ReceiptIffFlagAndOfDigest ==
    /\ (last.op = "create" /\ last.status = 200) =>
          /\ last.reported # << >> <=> last.body.storeOnChain
          /\ last.write = "ok" =>
                verifications_table[last.hash].blockchain = last.reported
    /\ \A r \in Receipts :
          /\ r[2].transactionHash = <<"0", "x">> \o r[1]
          /\ r[2].note = "SIMULATED FOR HACKATHON - Not a real blockchain transaction"
    /\ \A r1, r2 \in Receipts :
          r1[1] = r2[1] => r1[2].transactionHash = r2[2].transactionHash

C19_Witness ==
    /\ last.op = "create" /\ last.status = 200 /\ last.body.storeOnChain
    /\ last.write = "failed" /\ last.hash \in Registered
    /\ verifications_table[last.hash].blockchain # << >>
    /\ verifications_table[last.hash].blockchain[1].from # last.reported[1].from
    /\ verifications_table[last.hash].blockchain[1].transactionHash
          = last.reported[1].transactionHash

\* C20: a verify that finds the digest's record returns the receipt and the
\* metadata as the record holds them, and no verify step changes the receipt or
\* the metadata of a stored record.
C20_VerifyKeepsReceipt ==
    [][VerifyStep =>
        /\ \A d \in Registered :
              /\ d \in DOMAIN verifications_table'
              /\ verifications_table'[d].blockchain = verifications_table[d].blockchain
              /\ verifications_table'[d].metadata = verifications_table[d].metadata
        /\ (last'.op = "verify" /\ last'.status = 200) =>
              /\ last'.hash \in Registered
              /\ last'.reported[1].blockchain = verifications_table[last'.hash].blockchain
              /\ last'.reported[1].metadata = verifications_table[last'.hash].metadata]_vars

C20_Witness ==
    /\ last.op = "verify" /\ last.status = 200 /\ last.write = "ok"
    /\ last.verification_count = 2
    /\ last.reported[1].blockchain # << >>
    /\ last.reported[1].blockchain[1].timestamp < now
    /\ verifications_table[last.hash].blockchain = last.reported[1].blockchain
    /\ verifications_table[last.hash].metadata[1].store_on_chain

\* C21: verify_hash(data, h, key) is true when h was generated from the same
\* data with the same key, and false when it was generated from other data or
\* with another key; the key may be absent, empty or non-empty.
C21_VerifyHashRoundTrips ==
    last.op = "verify_hash" =>
        (last.call.result
            <=> (last.call.data = last.call.of_data /\ last.call.key = last.call.of_key))

\* a step of the fetch-pubmed handler
FetchStep == now' = now /\ vars' # vars /\ last'.op = "fetch"

\* the identifier is a string of 1 to 20 characters, each a decimal digit
AllDigits(pmid) ==
    /\ pmid.some
    /\ Len(pmid.val) \in 1..20
    /\ \A i \in 1..Len(pmid.val) :
           pmid.val[i] \in {"0", "1", "2", "3", "4", "5", "6", "7", "8", "9"}

\* C22: a fetch accepts its identifier exactly when it is an all-digit string
\* of 1 to 20 characters; for every other identifier it answers 400 without
\* reading or writing the papers table and without calling the PubMed API.
C22_IdentifierValidation ==
    [][FetchStep =>
        /\ AllDigits(last'.pmid) <=> last'.status # 400
        /\ ~AllDigits(last'.pmid) =>
              /\ last'.read = "none" /\ last'.write = "none"
              /\ last'.api_calls = 0
              /\ papers_table' = papers_table]_vars

\* both a 20-digit identifier accepted and a 21-digit identifier rejected
C22_Witness ==
    /\ last.op = "fetch" /\ last.pmid = Some(Digits(MaxPmidLen + 1)) /\ last.status = 400
    /\ Digits(MaxPmidLen) \in DOMAIN papers_table

\* C23: once a paper is stored, a fetch for its identifier that can read the
\* table returns the stored record marked cached, calls the PubMed API zero
\* times and leaves the papers table as it was.
C23_StoredPaperIsServedFromCache ==
    [][(FetchStep /\ last'.pmid.some /\ last'.pmid.val \in DOMAIN papers_table
                  /\ last'.read = "ok") =>
        /\ last'.status = 200 /\ last'.cached
        /\ last'.data = << papers_table[last'.pmid.val] >>
        /\ last'.api_calls = 0
        /\ papers_table' = papers_table]_vars

\* a cache hit on a paper fetched at an earlier time
C23_Witness ==
    /\ last.op = "fetch" /\ last.cached /\ last.data # << >>
    /\ last.data[1].fetched_at < now

\* C24: a failed cache lookup still leads to the PubMed calls, a failed write
\* still gives 200 with the fetched record and cached = false, and whenever
\* both PubMed calls return the status is 200 whatever the store calls did.
C24_StoreFailuresAreNotFatal ==
    [][FetchStep =>
        /\ last'.read = "failed" => last'.api_calls >= 1
        /\ last'.write = "failed" =>
              /\ last'.status = 200 /\ ~last'.cached
              /\ last'.data = << article(last'.pmid.val, last'.data[1].abstract, now) >>
              /\ papers_table' = papers_table
        /\ last'.upstream = "ok" => last'.status = 200
        /\ last'.status \in {500, 502} => last'.upstream \in {"http_error", "error"}]_vars

\* a fetch whose lookup and whose write both failed
C24_Witness ==
    /\ last.op = "fetch" /\ last.read = "failed" /\ last.write = "failed"
    /\ last.status = 200

\* the fixed messages of the handlers' status-500 responses
StableMessages ==
    { "An unexpected error occurred while creating hash",
      "An unexpected error occurred during verification",
      "An unexpected error occurred",
      "Error accessing paper data",
      "AI service temporarily unavailable" }

\* C25: the message of every status-500 response is one of the handlers' fixed
\* strings, never the text of the exception that was caught.
C25_ServerErrorMessageIsFixed ==
    last.status = 500 => (last.message \in StableMessages /\ last.message # ExceptionText)

\* a step of the generate-summary handler
SummarizeStep == now' = now /\ vars' # vars /\ last'.op = "summarize"

\* the summary records stored for a pmid
SummariesOf(pmid) ==
    {r \in {summaries_table[k] : k \in DOMAIN summaries_table} : r.pmid = pmid}

\* C26: a summarize for an identifier that has no stored paper (the lookup of
\* the paper answered) returns 404, calls no generation and writes no summary.
C26_MissingPaperIsNotFound ==
    [][(SummarizeStep /\ last'.pmid.some /\ last'.pmid.val \notin DOMAIN papers_table
                      /\ SummariesOf(last'.pmid.val) = {} /\ last'.read = "ok") =>
        /\ last'.status = 404
        /\ last'.levels = {} /\ last'.write = "none"
        /\ summaries_table' = summaries_table]_vars

\* a 404 while the tables hold a paper and a summary of another request
C26_Witness ==
    /\ last.op = "summarize" /\ last.status = 404 /\ last.pmid = Some(<<"2">>)
    /\ papers_table # << >> /\ summaries_table # << >>

C28_AllLevelsFailedIsAFailure ==
    [][(SummarizeStep /\ last'.levels # {} /\ last'.failed = last'.levels) =>
        /\ last'.status # 200
        /\ summaries_table' = summaries_table]_vars

\* the calls of _generate that returned, among the first three
Returned(outcomes) == {i \in 1..3 : outcomes[i].some}

\* C29: generate_with_retry calls _generate at most 3 times, stops at the first
\* call that returns and returns its text, returns None after 3 calls that
\* raised, and sleeps 1 and then 2 base delays between the calls, with no sleep
\* after the last call.
C29_RetryIsBoundedWithLinearBackoff ==
    last.op = "generate" =>
        LET r == last.retry
            first == IF Returned(r.outcomes) = {} THEN 0
                     ELSE CHOOSE i \in Returned(r.outcomes) :
                              \A j \in Returned(r.outcomes) : i <= j
        IN  /\ r.calls \in 1..3
            /\ first # 0 => (r.calls = first /\ r.result = r.outcomes[first])
            /\ first = 0 => (r.calls = 3 /\ r.result = None)
            /\ Len(r.sleeps) = r.calls - 1
            /\ \A k \in 1..Len(r.sleeps) : r.sleeps[k] = k * 1

\* a run whose third call is the first to return
C29_Witness ==
    /\ last.op = "generate" /\ last.retry.calls = 3 /\ last.retry.result.some
    /\ last.retry.sleeps = << 1, 2 >>

\* C30: any two PubMed calls let go by rate_limit() in one instance are at
\* least MIN_REQUEST_INTERVAL apart, however the threads interleave.
C30_CallsAreSpaced ==
    \A i, j \in 1..Len(requests) :
        i < j => requests[j] - requests[i] >= MIN_REQUEST_INTERVAL

====
